---- MODULE Spec2Model ----
(***************************************************************************)
(* The user-management service of this repository, in its four variants:   *)
(*   "mem"    the in-memory Express app         (src/unnamed/part_000)     *)
(*   "pg"     the relational (pg Client) app    (src/src/index.ts)         *)
(*   "mongo"  the document-store (mongoose) app (src/unnamed/part_004)     *)
(*   "store"  the user store module             (src/unnamed/part_002)     *)
(* One variant is deployed per behaviour (chosen in Init); every action is *)
(* one request handler, or one half of a handler that suspends at an await *)
(* which other requests can overtake.  req is the request the last step    *)
(* handled and resp the response that step sent.                           *)
(***************************************************************************)
EXTENDS Integers, Sequences, FiniteSets, TLC

\* Largest number of accounts ever created in one behaviour.
MaxUsers == 2

\* bcrypt cost: saltRounds / SALT_ROUNDS / genSalt(12).
saltRounds == 12

(***************************************************************************)
(* Request data.  A JSON body field is a string, or is missing (undefined).*)
(***************************************************************************)
Absent == "<undefined>"

Fields == {"name", "email", "password"}

Body(n, e, p) == [name |-> n, email |-> e, password |-> p]

John == Body("John Doe", "john@example.com", "password123")
Jane == Body("Jane Doe", "jane@example.com", "newpassword")
NoFields == Body(Absent, Absent, Absent)

\* The request bodies the clients send: complete ones, ones with one field
\* missing or empty, and the empty body.
Bodies ==
    {John, Jane, NoFields}
    \cup {[Jane EXCEPT ![f] = Absent] : f \in Fields}
    \cup {[Jane EXCEPT ![f] = ""] : f \in Fields}

Secrets == {b.password : b \in Bodies} \ {Absent, ""}

\* Salts bcrypt may draw; a fresh one per hash call.
Salts == {"saltA", "saltB"}

\* Ids a client addresses: those ever assigned and one that never is.
ParamIds == 1 .. (MaxUsers + 1)

\* parseInt of a non-numeric path segment.
NaN == -1

\* JavaScript !v for v a string or undefined.
Falsy(v) == v = Absent \/ v = ""

\* The hash computed without the password it was given.
bcryptHashNoSecret(password, salt) ==
    "$2b$" \o ToString(saltRounds) \o "$" \o salt \o "."

\* bcrypt.hash(password, saltRounds): the encoded hash carries the version,
\* the cost and the salt, then the digest of the secret under that salt.
bcryptHash(password, salt) ==
    "$2b$" \o ToString(saltRounds) \o "$" \o salt \o "." \o password

IsHash(h) == \E s \in Secrets, salt \in Salts : h = bcryptHash(s, salt)

\* verifyCredential(rawSecret, credentialHash): reads the cost and the salt
\* out of the encoded hash, digests rawSecret under them and compares the
\* encoding obtained with the stored one.
CostOf(h) == SubSeq(h, 5, 6)
SaltLength == Len(CHOOSE salt \in Salts : TRUE)
SaltOf(h) == SubSeq(h, 8, 7 + SaltLength)
verifyCredential(rawSecret, credentialHash) ==
    /\ Len(credentialHash) > 7 + SaltLength
    /\ credentialHash =
          "$2b$" \o CostOf(credentialHash) \o "$" \o SaltOf(credentialHash) \o "." \o rawSecret

(***************************************************************************)
(* Responses: status, the error or message text of the JSON body, and the  *)
(* user objects the body carries (each with exactly the properties sent).  *)
(***************************************************************************)
Resp(status, error, message, us) ==
    [status |-> status, error |-> error, message |-> message, users |-> us]

NoResponse == Resp(0, "", "", <<>>)

Req(op, id, body) == [op |-> op, id |-> id, body |-> body]

VARIABLES
    variant,    \* which implementation is deployed
    users,      \* part_000: let users = [] (the array)
    pending,    \* part_000: the handler suspended at await bcrypt.hash
    rows,       \* index.ts: the rows of table users
    serial,     \* index.ts: last value of the id sequence of table users
    docs,       \* part_004: the documents of the User collection
    oids,       \* part_004: number of ObjectIds generated so far
    usersMap,   \* part_002: let users = {} (the map)
    userId,     \* part_002: let userId = 1
    req,        \* the request handled by the last step
    resp        \* the response sent by the last step

vars == <<variant, users, pending, rows, serial, docs, oids, usersMap, userId, req, resp>>

memVars == <<users, pending>>
pgVars == <<rows, serial>>
mongoVars == <<docs, oids>>
storeVars == <<usersMap, userId>>

NoPending == [op |-> "none", id |-> 0, userIndex |-> 0, body |-> NoFields]

Init ==
    /\ variant \in {"mem", "pg", "mongo", "store"}
    /\ users = <<>>
    /\ pending = NoPending
    /\ rows = {}
    /\ serial = 0
    /\ docs = {}
    /\ oids = 0
    /\ usersMap = <<>>
    /\ userId = 1
    /\ req = Req("none", 0, NoFields)
    /\ resp = NoResponse

(***************************************************************************)
(* In-memory variant (src/unnamed/part_000).                               *)
(***************************************************************************)
\* An empty slot of the array (an index never assigned).
Hole == [hole |-> TRUE]

IsHole(u) == "hole" \in DOMAIN u

\* The check written with && for ||.
MissingRequiredAll(b) == Falsy(b.name) /\ Falsy(b.email) /\ Falsy(b.password)

\* if (!name || !email || !password)
MissingRequired(b) == Falsy(b.name) \/ Falsy(b.email) \/ Falsy(b.password)

\* users.findIndex((u) => u.id === userId): the first position whose callback
\* stops the scan, 0 for -1.  The callback reads u.id, so an empty slot met
\* before a match throws.
ScanStop(id) ==
    LET hits == {i \in DOMAIN users : IsHole(users[i]) \/ users[i].id = id}
    IN  IF hits = {} THEN 0 ELSE CHOOSE i \in hits : \A j \in hits : i <= j

ScanThrows(id) == ScanStop(id) # 0 /\ IsHole(users[ScanStop(id)])

\* users[userIndex] = updatedUser: assignment past the end grows the array.
ArraySet(arr, i, v) ==
    [j \in 1 .. (IF i > Len(arr) THEN i ELSE Len(arr)) |->
        IF j = i THEN v ELSE IF j <= Len(arr) THEN arr[j] ELSE Hole]

\* users.splice(userIndex, 1)
Splice(arr, i) == [j \in 1 .. (Len(arr) - 1) |-> IF j < i THEN arr[j] ELSE arr[j + 1]]

MissingFieldsResponse == Resp(400, "Missing required fields", "", <<>>)
NotFoundResponse == Resp(404, "User not found", "", <<>>)

\* app.post('/users') up to the await: validation, then bcrypt.hash starts.
memPostStart(b) ==
    /\ variant = "mem"
    /\ req' = Req("POST", 0, b)
    /\ IF MissingRequired(b)
       THEN /\ resp' = MissingFieldsResponse
            /\ UNCHANGED memVars
       ELSE /\ pending = NoPending
            /\ Len(users) < MaxUsers
            /\ pending' = [op |-> "POST", id |-> 0, userIndex |-> 0, body |-> b]
            /\ resp' = NoResponse
            /\ UNCHANGED users
    /\ UNCHANGED <<variant, pgVars, mongoVars, storeVars>>

\* app.post('/users') after the await: id from the array length, push, 201.
memPostFinish ==
    /\ variant = "mem"
    /\ pending.op = "POST"
    /\ \E salt \in Salts :
        LET newUser == [id |-> Len(users) + 1,
                        name |-> pending.body.name,
                        email |-> pending.body.email,
                        password |-> bcryptHash(pending.body.password, salt)]
        IN  /\ users' = Append(users, newUser)
            /\ resp' = Resp(201, "", "", <<newUser>>)
    /\ req' = Req("POST", 0, pending.body)
    /\ pending' = NoPending
    /\ UNCHANGED <<variant, pgVars, mongoVars, storeVars>>

\* app.get('/users')
memGetAll ==
    /\ variant = "mem"
    /\ req' = Req("GET_ALL", 0, NoFields)
    /\ resp' = Resp(200, "", "", users)
    /\ UNCHANGED <<variant, memVars, pgVars, mongoVars, storeVars>>

ServerErrorResponse == Resp(500, "Something went wrong", "", <<>>)

\* app.get('/users/:id'): users.find; a throw reaches the error middleware.
memGet(id) ==
    /\ variant = "mem"
    /\ req' = Req("GET", id, NoFields)
    /\ resp' = IF ScanThrows(id) THEN ServerErrorResponse
               ELSE IF ScanStop(id) = 0 THEN NotFoundResponse
               ELSE Resp(200, "", "", <<users[ScanStop(id)]>>)
    /\ UNCHANGED <<variant, memVars, pgVars, mongoVars, storeVars>>

\* app.put('/users/:id') up to the await: validation, findIndex, then
\* bcrypt.hash starts.  A throw in the async handler rejects its promise:
\* the error middleware answers or nothing does, by the framework's version.
memPutStart(id, b) ==
    /\ variant = "mem"
    /\ req' = Req("PUT", id, b)
    /\ IF MissingRequired(b)
       THEN /\ resp' = MissingFieldsResponse
            /\ UNCHANGED memVars
       ELSE IF ScanThrows(id)
       THEN /\ resp' \in {ServerErrorResponse, NoResponse}
            /\ UNCHANGED memVars
       ELSE IF ScanStop(id) = 0
       THEN /\ resp' = NotFoundResponse
            /\ UNCHANGED memVars
       ELSE /\ pending = NoPending
            /\ pending' = [op |-> "PUT", id |-> id, userIndex |-> ScanStop(id), body |-> b]
            /\ resp' = NoResponse
            /\ UNCHANGED users
    /\ UNCHANGED <<variant, pgVars, mongoVars, storeVars>>

\* app.put('/users/:id') after the await: write at the index found before it.
memPutFinish ==
    /\ variant = "mem"
    /\ pending.op = "PUT"
    /\ \E salt \in Salts :
        LET updatedUser == [id |-> pending.id,
                            name |-> pending.body.name,
                            email |-> pending.body.email,
                            password |-> bcryptHash(pending.body.password, salt)]
        IN  /\ users' = ArraySet(users, pending.userIndex, updatedUser)
            /\ resp' = Resp(200, "", "", <<updatedUser>>)
    /\ req' = Req("PUT", pending.id, pending.body)
    /\ pending' = NoPending
    /\ UNCHANGED <<variant, pgVars, mongoVars, storeVars>>

\* app.delete('/users/:id')
memDelete(id) ==
    /\ variant = "mem"
    /\ req' = Req("DELETE", id, NoFields)
    /\ IF ScanThrows(id)
       THEN /\ resp' = ServerErrorResponse
            /\ UNCHANGED memVars
       ELSE IF ScanStop(id) = 0
       THEN /\ resp' = NotFoundResponse
            /\ UNCHANGED memVars
       ELSE /\ users' = Splice(users, ScanStop(id))
            /\ resp' = Resp(204, "", "", <<>>)
            /\ UNCHANGED pending
    /\ UNCHANGED <<variant, pgVars, mongoVars, storeVars>>

memNext ==
    \/ \E b \in Bodies : memPostStart(b)
    \/ memPostFinish
    \/ memGetAll
    \/ \E id \in ParamIds : memGet(id)
    \/ \E id \in ParamIds, b \in Bodies : memPutStart(id, b)
    \/ memPutFinish
    \/ \E id \in ParamIds : memDelete(id)

(***************************************************************************)
(* Relational variant (src/src/index.ts).  Table users has the columns of  *)
(* interface User; id is filled from the table's sequence.  Each query is  *)
(* one atomic statement, and it is the handler's only access to the table, *)
(* so a handler is one step at its query.                                  *)
(***************************************************************************)
\* if (!name || !email || !password)
pgMissingRequired(b) == Falsy(b.name) \/ Falsy(b.email) \/ Falsy(b.password)

\* if (!name && !email && !password)
pgNoFields(b) == Falsy(b.name) /\ Falsy(b.email) /\ Falsy(b.password)

\* SET column = $n, without the COALESCE.
Overwrite(v, old) == v

\* COALESCE($n, column): an undefined parameter is sent as NULL.
Coalesce(v, old) == IF v = Absent THEN old ELSE v

InvalidIdResponse == Resp(400, "Invalid user ID", "", <<>>)
NoFieldsResponse == Resp(400, "No fields to update", "", <<>>)

PgIds == ParamIds \cup {NaN}

\* app.post('/users'): INSERT ... RETURNING *
pgPost(b) ==
    /\ variant = "pg"
    /\ req' = Req("POST", 0, b)
    /\ IF pgMissingRequired(b)
       THEN /\ resp' = MissingFieldsResponse
            /\ UNCHANGED pgVars
       ELSE /\ serial < MaxUsers
            /\ \E salt \in Salts :
                LET row == [id |-> serial + 1,
                            name |-> b.name,
                            email |-> b.email,
                            password |-> bcryptHash(b.password, salt)]
                IN  /\ rows' = rows \cup {row}
                    /\ serial' = serial + 1
                    /\ resp' = Resp(201, "", "", <<row>>)
    /\ UNCHANGED <<variant, memVars, mongoVars, storeVars>>

\* app.get('/users/:id'): SELECT * FROM users WHERE id = $1
pgGet(id) ==
    /\ variant = "pg"
    /\ req' = Req("GET", id, NoFields)
    /\ resp' = IF id = NaN THEN InvalidIdResponse
               ELSE IF \E r \in rows : r.id = id
               THEN Resp(200, "", "", <<CHOOSE r \in rows : r.id = id>>)
               ELSE NotFoundResponse
    /\ UNCHANGED <<variant, memVars, pgVars, mongoVars, storeVars>>

\* app.put('/users/:id'): a salt is drawn and the password hashed only
\* if (password); then UPDATE ... SET col = COALESCE($n, col) ... RETURNING *
pgPut(id, b) ==
    /\ variant = "pg"
    /\ req' = Req("PUT", id, b)
    /\ IF id = NaN
       THEN /\ resp' = InvalidIdResponse
            /\ UNCHANGED pgVars
       ELSE IF pgNoFields(b)
       THEN /\ resp' = NoFieldsResponse
            /\ UNCHANGED pgVars
       ELSE \E salt \in (IF Falsy(b.password) THEN {"none"} ELSE Salts) :
            LET hashedPassword == IF Falsy(b.password) THEN Absent
                                  ELSE bcryptHash(b.password, salt)
                Set(r) == [id |-> r.id,
                           name |-> Coalesce(b.name, r.name),
                           email |-> Coalesce(b.email, r.email),
                           password |-> Coalesce(hashedPassword, r.password)]
                hit == {r \in rows : r.id = id}
            IN  /\ rows' = (rows \ hit) \cup {Set(r) : r \in hit}
                /\ resp' = IF hit = {} THEN NotFoundResponse
                           ELSE Resp(200, "", "", <<Set(CHOOSE r \in hit : TRUE)>>)
                /\ UNCHANGED serial
    /\ UNCHANGED <<variant, memVars, mongoVars, storeVars>>

\* app.delete('/users/:id'): DELETE FROM users WHERE id = $1 RETURNING *
pgDelete(id) ==
    /\ variant = "pg"
    /\ req' = Req("DELETE", id, NoFields)
    /\ IF id = NaN
       THEN /\ resp' = InvalidIdResponse
            /\ UNCHANGED pgVars
       ELSE LET hit == {r \in rows : r.id = id}
            IN  /\ rows' = rows \ hit
                /\ resp' = IF hit = {} THEN NotFoundResponse
                           ELSE Resp(200, "", "", <<CHOOSE r \in hit : TRUE>>)
                /\ UNCHANGED serial
    /\ UNCHANGED <<variant, memVars, mongoVars, storeVars>>

pgNext ==
    \/ \E b \in Bodies : pgPost(b)
    \/ \E id \in PgIds : pgGet(id)
    \/ \E id \in PgIds, b \in Bodies : pgPut(id, b)
    \/ \E id \in PgIds : pgDelete(id)

(***************************************************************************)
(* Document-store variant (src/unnamed/part_004).  The collection has a    *)
(* unique index on email (userSchema); the n-th document inserted gets     *)
(* _id n.  As in the relational variant a handler is one step at its one   *)
(* collection operation.                                                   *)
(***************************************************************************)
\* The check without its password test.
validateInputNoPassword(b) == Falsy(b.name) \/ Falsy(b.email)

\* validateInput: if (!name || !email || !password)
validateInput(b) == Falsy(b.name) \/ Falsy(b.email) \/ Falsy(b.password)

DuplicateEmailResponse == Resp(409, "Email already exists", "", <<>>)

\* The projection { password: 0 }
ExcludePassword(d) == [_id |-> d._id, name |-> d.name, email |-> d.email]

\* The documents as find() lists them, by _id.
RECURSIVE InOrder(_)
InOrder(ds) ==
    IF ds = {} THEN <<>>
    ELSE LET first == CHOOSE d \in ds : \A e \in ds : d._id <= e._id
         IN  <<first>> \o InOrder(ds \ {first})

\* app.post('/users'): validateInput, hash, newUser.save()
mongoPost(b) ==
    /\ variant = "mongo"
    /\ req' = Req("POST", 0, b)
    /\ IF validateInput(b)
       THEN /\ resp' = MissingFieldsResponse
            /\ UNCHANGED mongoVars
       ELSE IF \E d \in docs : d.email = b.email
       THEN /\ resp' = DuplicateEmailResponse
            /\ UNCHANGED mongoVars
       ELSE /\ oids < MaxUsers
            /\ \E salt \in Salts :
                docs' = docs \cup {[_id |-> oids + 1,
                                    name |-> b.name,
                                    email |-> b.email,
                                    password |-> bcryptHash(b.password, salt)]}
            /\ oids' = oids + 1
            /\ resp' = Resp(201, "", "User created successfully", <<>>)
    /\ UNCHANGED <<variant, memVars, pgVars, storeVars>>

\* app.get('/users'): User.find({}, { password: 0 })
mongoGetAll ==
    /\ variant = "mongo"
    /\ req' = Req("GET_ALL", 0, NoFields)
    /\ resp' = Resp(200, "", "", InOrder({ExcludePassword(d) : d \in docs}))
    /\ UNCHANGED <<variant, memVars, pgVars, mongoVars, storeVars>>

\* app.get('/users/:id'): User.findById(id, { password: 0 })
mongoGet(id) ==
    /\ variant = "mongo"
    /\ req' = Req("GET", id, NoFields)
    /\ resp' = IF \E d \in docs : d._id = id
               THEN Resp(200, "", "", <<ExcludePassword(CHOOSE d \in docs : d._id = id)>>)
               ELSE NotFoundResponse
    /\ UNCHANGED <<variant, memVars, pgVars, mongoVars, storeVars>>

\* app.put('/users/:id'): validateInput, hash, User.findByIdAndUpdate(id,
\* { name, email, password }, { new: true }); the body carries updatedUser.
mongoPut(id, b) ==
    /\ variant = "mongo"
    /\ req' = Req("PUT", id, b)
    /\ IF validateInput(b)
       THEN /\ resp' = MissingFieldsResponse
            /\ UNCHANGED mongoVars
       ELSE IF ~ \E d \in docs : d._id = id
       THEN /\ resp' = NotFoundResponse
            /\ UNCHANGED mongoVars
       ELSE IF \E d \in docs : d._id # id /\ d.email = b.email
       THEN /\ resp' = DuplicateEmailResponse
            /\ UNCHANGED mongoVars
       ELSE \E salt \in Salts :
            LET updatedUser == [_id |-> id,
                                name |-> b.name,
                                email |-> b.email,
                                password |-> bcryptHash(b.password, salt)]
            IN  /\ docs' = {d \in docs : d._id # id} \cup {updatedUser}
                /\ resp' = Resp(200, "", "User updated successfully", <<updatedUser>>)
                /\ UNCHANGED oids
    /\ UNCHANGED <<variant, memVars, pgVars, storeVars>>

\* app.delete('/users/:id'): User.findByIdAndDelete(id)
mongoDelete(id) ==
    /\ variant = "mongo"
    /\ req' = Req("DELETE", id, NoFields)
    /\ IF \E d \in docs : d._id = id
       THEN /\ docs' = {d \in docs : d._id # id}
            /\ resp' = Resp(200, "", "User deleted successfully", <<>>)
            /\ UNCHANGED oids
       ELSE /\ resp' = NotFoundResponse
            /\ UNCHANGED mongoVars
    /\ UNCHANGED <<variant, memVars, pgVars, storeVars>>

mongoNext ==
    \/ \E b \in Bodies : mongoPost(b)
    \/ mongoGetAll
    \/ \E id \in ParamIds : mongoGet(id)
    \/ \E id \in ParamIds, b \in Bodies : mongoPut(id, b)
    \/ \E id \in ParamIds : mongoDelete(id)

(***************************************************************************)
(* User store module (src/unnamed/part_002): a map from id strings to user *)
(* objects and a counter.  Its callers pass a { name, email, password }    *)
(* object; a user object is a function from its property names.  resp has  *)
(* the value returned (users) or the exception thrown (error).             *)
(***************************************************************************)
\* The objects callers pass: every property a string, the password as the
\* request carried it or already hashed.
UserArgs ==
    {b \in Bodies : \A f \in Fields : b[f] # Absent}
    \cup {[John EXCEPT !.password = bcryptHash(John.password, "saltA")]}

\* { ...a, ...b }
Spread(a, b) == [f \in DOMAIN a \cup DOMAIN b |-> IF f \in DOMAIN b THEN b[f] ELSE a[f]]

Returned(us) == Resp(0, "", "", us)
Thrown(e) == Resp(0, e, "", <<>>)

\* addUser: the object literal reads the identifiers name and email, which
\* no scope declares, so building newUser throws before anything is stored.
addUser(user) ==
    /\ variant = "store"
    /\ req' = Req("addUser", 0, user)
    /\ resp' = Thrown("ReferenceError")
    /\ UNCHANGED <<variant, memVars, pgVars, mongoVars, storeVars>>

\* findUserById
findUserById(id) ==
    /\ variant = "store"
    /\ req' = Req("findUserById", id, NoFields)
    /\ resp' = IF ToString(id) \in DOMAIN usersMap
               THEN Returned(<<usersMap[ToString(id)]>>)
               ELSE Returned(<<>>)
    /\ UNCHANGED <<variant, memVars, pgVars, mongoVars, storeVars>>

\* updateUser: users[id] = { ...users[id], ...user }
updateUser(id, user) ==
    /\ variant = "store"
    /\ req' = Req("updateUser", id, user)
    /\ LET key == ToString(id)
           old == IF key \in DOMAIN usersMap THEN usersMap[key] ELSE <<>>
           updatedUser == Spread(old, user)
       IN  /\ usersMap' = [k \in DOMAIN usersMap \cup {key} |->
                              IF k = key THEN updatedUser ELSE usersMap[k]]
           /\ resp' = Returned(<<updatedUser>>)
    /\ UNCHANGED <<variant, memVars, pgVars, mongoVars, userId>>

\* deleteUser: delete users[id]
deleteUser(id) ==
    /\ variant = "store"
    /\ req' = Req("deleteUser", id, NoFields)
    /\ usersMap' = [k \in DOMAIN usersMap \ {ToString(id)} |-> usersMap[k]]
    /\ resp' = Returned(<<>>)
    /\ UNCHANGED <<variant, memVars, pgVars, mongoVars, userId>>

storeNext ==
    \/ \E user \in UserArgs : addUser(user)
    \/ \E id \in ParamIds : findUserById(id)
    \/ \E id \in ParamIds, user \in UserArgs : updateUser(id, user)
    \/ \E id \in ParamIds : deleteUser(id)

Next == memNext \/ pgNext \/ mongoNext \/ storeNext

Spec == Init /\ [][Next]_vars

\* Clients that await each response before the next request (as the test
\* suites do): a suspended handler resumes before anything else runs.
SeqNext ==
    \/ pending = NoPending /\ Next
    \/ memPostFinish
    \/ memPutFinish

SpecSeq == Init /\ [][SeqNext]_vars

(***************************************************************************)
(* Vocabulary of the properties.                                           *)
(***************************************************************************)
Http == {"mem", "pg", "mongo"}

Complete(b) == \A f \in Fields : ~ Falsy(b[f])

\* The stored accounts of the array, by position.
Slots == {i \in DOMAIN users : ~ IsHole(users[i])}

\* Is an account with this identifier stored?
Known(id) ==
    CASE variant = "mem" -> \E i \in Slots : users[i].id = id
      [] variant = "pg" -> \E r \in rows : r.id = id
      [] variant = "mongo" -> \E d \in docs : d._id = id
      [] OTHER -> ToString(id) \in DOMAIN usersMap

\* The password values in the store.
StoredPasswords ==
    CASE variant = "mem" -> {users[i].password : i \in Slots}
      [] variant = "pg" -> {r.password : r \in rows}
      [] variant = "mongo" -> {d.password : d \in docs}
      [] OTHER -> {usersMap[k].password : k \in DOMAIN usersMap}

StoreUnchanged == users' = users /\ rows' = rows /\ docs' = docs /\ usersMap' = usersMap

CarriesNoPassword == \A i \in DOMAIN resp.users : "password" \notin DOMAIN resp.users[i]

(***************************************************************************)
(* C1: in the in-memory and the relational variant no user object of any   *)
(* response body has a password property.                                  *)
(* The handlers send the stored object or row whole, so this fails.        *)
(***************************************************************************)
C1_NoPasswordInResponse == variant \in {"mem", "pg"} => CarriesNoPassword

(***************************************************************************)
(* C2: in the document-store variant the user objects answered by          *)
(* GET /users, GET /users/:id and a successful PUT /users/:id have no      *)
(* password property.  The PUT handler sends the updated document whole.   *)
(***************************************************************************)
C2_NoPasswordInDocumentResponse ==
    (variant = "mongo" /\ req.op \in {"GET_ALL", "GET", "PUT"}) => CarriesNoPassword

(***************************************************************************)
(* C3: a create request with name, email or password absent or empty is    *)
(* answered 400 'Missing required fields' and the stored accounts are the  *)
(* same after it as before.                                                *)
(***************************************************************************)
C3_CreateMissingRejected ==
    [][(variant \in Http /\ req'.op = "POST" /\ \E f \in Fields : Falsy(req'.body[f]))
        => (/\ resp'.status = 400
            /\ resp'.error = "Missing required fields"
            /\ StoreUnchanged)]_vars

C3_Witness ==
    /\ variant = "mongo"
    /\ req.op = "POST"
    /\ Falsy(req.body.password)
    /\ resp.status = 400
    /\ docs # {}

(***************************************************************************)
(* C4: a create with name, email and password all non-empty succeeds, adds *)
(* exactly one account, with the submitted name and email, and returns     *)
(* that account's identifier, name and email; for the in-memory POST       *)
(* handler (when it answers) and for addUser.  addUser throws instead.     *)
(***************************************************************************)
C4_CreateSucceeds ==
    [][/\ (variant = "mem" /\ req'.op = "POST" /\ Complete(req'.body) /\ resp' # NoResponse)
          => (/\ resp'.status = 201
              /\ Len(users') = Len(users) + 1
              /\ \A i \in DOMAIN users : users'[i] = users[i]
              /\ users'[Len(users')].name = req'.body.name
              /\ users'[Len(users')].email = req'.body.email
              /\ Len(resp'.users) = 1
              /\ resp'.users[1].id = users'[Len(users')].id
              /\ resp'.users[1].name = req'.body.name
              /\ resp'.users[1].email = req'.body.email)
       /\ (variant = "store" /\ req'.op = "addUser" /\ Complete(req'.body))
          => (/\ resp'.error = ""
              /\ \E k \in DOMAIN usersMap' \ DOMAIN usersMap :
                    /\ DOMAIN usersMap' = DOMAIN usersMap \cup {k}
                    /\ usersMap'[k].name = req'.body.name
                    /\ usersMap'[k].email = req'.body.email
                    /\ Len(resp'.users) = 1
                    /\ resp'.users[1] = usersMap'[k]
              /\ \A k \in DOMAIN usersMap : usersMap'[k] = usersMap[k])
      ]_vars

(***************************************************************************)
(* C5: no two stored accounts have the same email, and a create succeeds   *)
(* only with an email no other stored account has (else 409 'Email already *)
(* exists', nothing stored); in-memory and document-store variants.  The   *)
(* in-memory POST handler never compares emails.                           *)
(***************************************************************************)
C5_UniqueEmail ==
    /\ variant = "mem" =>
          /\ \A i, j \in Slots : users[i].email = users[j].email => i = j
          /\ (req.op = "POST" /\ resp # NoResponse /\ resp.status # 400)
                => (resp.status = 409 /\ resp.error = "Email already exists")
                   \/ Cardinality({i \in Slots : users[i].email = req.body.email}) = 1
    /\ variant = "mongo" =>
          /\ \A d, e \in docs : d.email = e.email => d = e
          /\ (req.op = "POST" /\ resp.status # 400)
                => (resp.status = 409 /\ resp.error = "Email already exists")
                   \/ Cardinality({d \in docs : d.email = req.body.email}) = 1

(***************************************************************************)
(* C6: no two stored accounts have the same identifier, whatever the       *)
(* sequence or interleaving of creates, updates and deletes, and an update *)
(* changes no stored account's identifier.  The                            *)
(* in-memory POST handler numbers by array length, so a create after a     *)
(* delete repeats the identifier of a stored account.                      *)
(***************************************************************************)
C6_UniqueId ==
    /\ [](/\ \A i, j \in Slots : users[i].id = users[j].id => i = j
          /\ \A r, q \in rows : r.id = q.id => r = q
          /\ \A d, e \in docs : d._id = e._id => d = e
          /\ \A k \in DOMAIN usersMap : "id" \in DOMAIN usersMap[k] => usersMap[k].id = k)
    /\ [][req'.op \in {"PUT", "updateUser"}
            => /\ \A i \in Slots : i \in DOMAIN users' => users'[i].id = users[i].id
               /\ {r.id : r \in rows'} = {r.id : r \in rows}
               /\ {d._id : d \in docs'} = {d._id : d \in docs}]_vars

(***************************************************************************)
(* C7: an update (with all its fields) addressed to an identifier that is  *)
(* not in the store yields a not-found error ('User not found', 404, for   *)
(* the HTTP handlers) and leaves the store unchanged; for the HTTP update  *)
(* handlers and for updateUser.  updateUser stores a new object instead.   *)
(***************************************************************************)
C7_UpdateUnknownNotFound ==
    [][/\ (/\ variant \in Http /\ req'.op = "PUT" /\ req'.id # NaN
           /\ Complete(req'.body) /\ ~ Known(req'.id))
          => (resp'.status = 404 /\ resp'.error = "User not found" /\ StoreUnchanged)
       /\ (variant = "store" /\ req'.op = "updateUser" /\ ~ Known(req'.id))
          => (resp'.error # "" /\ StoreUnchanged)
      ]_vars

(***************************************************************************)
(* C8: a delete of an identifier not in the store answers not-found and    *)
(* changes nothing; a delete of a stored identifier succeeds and removes   *)
(* exactly one account, which has that identifier; and a read of the same  *)
(* identifier that comes next answers not-found.  In the in-memory variant *)
(* a second account with the same identifier (C6) is still found.          *)
(***************************************************************************)
C8_Delete ==
    [][/\ (variant \in Http /\ req'.op = "DELETE" /\ req'.id # NaN /\ ~ Known(req'.id))
          => (resp'.status = 404 /\ resp'.error = "User not found" /\ StoreUnchanged)
       /\ (variant \in Http /\ req'.op = "DELETE" /\ req'.id # NaN /\ Known(req'.id))
          => /\ resp'.status \in {200, 204}
             /\ variant = "mem" =>
                   \E i \in Slots : users[i].id = req'.id /\ users' = Splice(users, i)
             /\ variant = "pg" =>
                   \E r \in rows : r.id = req'.id /\ rows' = rows \ {r}
             /\ variant = "mongo" =>
                   \E d \in docs : d._id = req'.id /\ docs' = docs \ {d}
       /\ (/\ variant \in Http
           /\ req.op = "DELETE" /\ resp.status \in {200, 204}
           /\ req'.op = "GET" /\ req'.id = req.id)
          => (resp'.status = 404 /\ resp'.error = "User not found")
      ]_vars

(***************************************************************************)
(* C9: every stored password is the hash of a submitted secret under some  *)
(* salt, and is no raw submitted secret.  The store module keeps the       *)
(* password property exactly as its caller passed it.                      *)
(***************************************************************************)
C9_StoredPasswordHashed ==
    \A h \in StoredPasswords : IsHash(h) /\ h \notin Secrets

(***************************************************************************)
(* C10: in the in-memory and document-store variants an update of a stored *)
(* account with name, email or password absent is answered 400 'Missing    *)
(* required fields' and no stored account changes.                         *)
(***************************************************************************)
C10_UpdateMissingRejected ==
    [][(/\ variant \in {"mem", "mongo"}
        /\ req'.op = "PUT"
        /\ Known(req'.id)
        /\ \E f \in Fields : req'.body[f] = Absent)
        => (/\ resp'.status = 400
            /\ resp'.error = "Missing required fields"
            /\ StoreUnchanged)]_vars

C10_Witness ==
    /\ variant = "mem"
    /\ req.op = "PUT"
    /\ req.body.password = Absent
    /\ \E i \in Slots : users[i].id = req.id /\ users[i].name = "John Doe"
    /\ resp.status = 400

(***************************************************************************)
(* C11: in the document-store variant an update (with all its fields) of a *)
(* stored account whose email is the email of an account in the store,     *)
(* the updated account's own included, is answered 409 'Email already      *)
(* exists' and changes no stored account.  The unique index rejects only   *)
(* the email of another document, so an update that sends the account's    *)
(* own email is carried out and answered 200.                              *)
(***************************************************************************)
C11_UpdateDuplicateEmail ==
    [][(/\ variant = "mongo"
        /\ req'.op = "PUT"
        /\ Complete(req'.body)
        /\ Known(req'.id)
        /\ \E d \in docs : d.email = req'.body.email)
        => (/\ resp'.status = 409
            /\ resp'.error = "Email already exists"
            /\ StoreUnchanged)]_vars

(***************************************************************************)
(* C12: for every non-empty secret s, verifying s against the hash that    *)
(* the create or update path computed and stored for s succeeds:           *)
(* verifyCredential(s, prepareCredential(s)) = true, whatever salt was     *)
(* drawn, and the account a successful POST or PUT with password s has     *)
(* just stored carries a hash that verifies against s.                     *)
(***************************************************************************)
\* The account the last (successful) create or update wrote.
JustStored ==
    CASE variant = "mem" -> {users[i] : i \in {j \in Slots : users[j] = resp.users[1]}}
      [] variant = "pg" -> {r \in rows : r = resp.users[1]}
      [] variant = "mongo" ->
            IF req.op = "POST" THEN {d \in docs : d.email = req.body.email}
            ELSE {d \in docs : d._id = req.id}
      [] OTHER -> {}

PartialUpdateEffect ==
    /\ (\A f \in Fields : req'.body[f] = Absent)
          => /\ resp'.status = 400
             /\ resp'.error = "No fields to update"
             /\ StoreUnchanged
    /\ Cardinality(rows') = Cardinality(rows)
    /\ \A r \in rows : r.id # req'.id => r \in rows'
    /\ \A r \in rows : r.id = req'.id =>
          \E q \in rows' :
              /\ q.id = r.id
              /\ req'.body.name = Absent => q.name = r.name
              /\ req'.body.email = Absent => q.email = r.email
              /\ req'.body.password = Absent => q.password = r.password
              /\ ~ Falsy(req'.body.password)
                    => \E salt \in Salts :
                          q.password = bcryptHash(req'.body.password, salt)

(***************************************************************************)
(* C13 as stated: every update request of the relational variant has the   *)
(* effect above.  A request whose id is not a number is answered 400       *)
(* 'Invalid user ID' before the fields are looked at.                      *)
(***************************************************************************)
C13_PartialUpdateAnyId ==
    [][(variant = "pg" /\ req'.op = "PUT") => PartialUpdateEffect]_vars

(***************************************************************************)
(* C13, amended: every update request of the relational variant whose id   *)
(* is a number has the effect above.                                       *)
(***************************************************************************)
C13_PartialUpdate ==
    [][(variant = "pg" /\ req'.op = "PUT" /\ req'.id # NaN)
          => PartialUpdateEffect]_vars

C13_Witness ==
    /\ variant = "pg"
    /\ req.op = "PUT"
    /\ req.body.password = Absent
    /\ req.body.name = "Jane Doe"
    /\ resp.status = 200
    /\ \E r \in rows :
          /\ r.id = req.id
          /\ r.name = "Jane Doe"
          /\ \E salt \in Salts : r.password = bcryptHash("password123", salt)

(***************************************************************************)
(* C14: every stored account has a non-empty name and a non-empty email,   *)
(* after any creates and updates of the HTTP variants.  The relational     *)
(* update passes an empty string through COALESCE, which replaces only     *)
(* NULL, so '' is stored.                                                  *)
(***************************************************************************)
C14_NameAndEmailNonEmpty ==
    variant \in Http =>
        /\ \A i \in Slots : ~ Falsy(users[i].name) /\ ~ Falsy(users[i].email)
        /\ \A r \in rows : ~ Falsy(r.name) /\ ~ Falsy(r.email)
        /\ \A d \in docs : ~ Falsy(d.name) /\ ~ Falsy(d.email)

(***************************************************************************)
(* C15: in the in-memory variant, when the update of an account resumes    *)
(* after its hash and that account is still stored (requests for other     *)
(* accounts may have completed during the hash), the position it looked up *)
(* is inside the array and holds that account, and the write creates no    *)
(* second record with an identifier already there.                         *)
(***************************************************************************)
C15_UpdateWritesOwnAccount ==
    [][(/\ variant = "mem"
        /\ pending # NoPending
        /\ pending.op = "PUT"
        /\ pending' = NoPending
        /\ \E i \in Slots : users[i].id = pending.id)
        => /\ pending.userIndex \in 1..Len(users)
           /\ ~ IsHole(users[pending.userIndex])
           /\ users[pending.userIndex].id = pending.id
           /\ Len(users') = Len(users)
           /\ (\A i, j \in Slots : users[i].id = users[j].id => i = j)
                => \A i, j \in 1..Len(users') :
                      (/\ ~ IsHole(users'[i]) /\ ~ IsHole(users'[j])
                       /\ users'[i].id = users'[j].id) => i = j
      ]_vars
====
